---- MODULE Spec2Model ----
(***************************************************************************)
(* A model of the C/C++ build rules of dbt-rules (RULES/cc): the toolchain *)
(* registry, the dependency collector, and the build entry points of       *)
(* ObjectFile, BlobObject, Library, multipleToolchainLibrary and Binary.   *)
(*                                                                         *)
(* A process is a fixed description (the libraries and the binary a rule   *)
(* author wrote, held in `libs` and `bin`), a registry of toolchains, and  *)
(* the engine context (core.Context): the set of absolute paths already    *)
(* built, the build steps emitted so far and the fatal error, if any, that *)
(* aborted the process.                                                    *)
(***************************************************************************)
EXTENDS Naturals, Sequences, FiniteSets

VARIABLES
    toolchains,   \* var toolchains: the registry, name -> Toolchain
    flag,         \* defaultToolchainFlag.Value()
    libs,         \* the Library values of the description, by identifier
    bin,          \* the Binary value of the description
    built,        \* core.Context: absolute output paths already built
    steps,        \* core.Context: the build steps emitted, in order
    fatal,        \* "" while the process runs, else the error that aborted it
    calls,        \* the entry points invoked so far, in order
    ret           \* the value returned by the last pure operation applied

vars == <<toolchains, flag, libs, bin, built, steps, fatal, calls, ret>>

(***************************************************************************)
(* Bounds.                                                                 *)
(***************************************************************************)
MaxCalls == 2     \* build entry points invoked in one process

(***************************************************************************)
(* Sequence helpers.                                                       *)
(***************************************************************************)
Range(s) == {s[i] : i \in 1..Len(s)}

RECURSIVE Concat(_)
Concat(ss) == IF ss = <<>> THEN <<>> ELSE Head(ss) \o Concat(Tail(ss))

Count(s, x) == Cardinality({i \in 1..Len(s) : s[i] = x})

(***************************************************************************)
(* core.Path.  A path is a root (the source tree or the output tree), the  *)
(* prefixes put before its name, its name and its extension.               *)
(***************************************************************************)
NoPath == [root |-> "nil", pre |-> <<>>, name |-> "", ext |-> ""]
SourcePath(n, e) == [root |-> "src", pre |-> <<>>, name |-> n, ext |-> e]
OutPath(n, e) == [root |-> "out", pre |-> <<>>, name |-> n, ext |-> e]

WithPrefix(p, t) == [p EXCEPT !.root = "out", !.pre = <<t>> \o @]
WithExt(p, e) == [p EXCEPT !.ext = e]
Relative(p) == p.pre \o <<p.name, p.ext>>
Absolute(p) == <<p.root>> \o Relative(p)

(***************************************************************************)
(* Errors that abort the process.                                          *)
(***************************************************************************)
OK == ""
ErrOutRequired == "Out field is required"
ErrDuplicate == "A toolchain with this name has already been registered"
ErrNoToolchain == "No registered toolchain"
ErrUnsupported == "Library does not support toolchain"
ErrNilDeref == "panic: nil pointer dereference"

(***************************************************************************)
(* Dependency references (interface Dep): a plain Library or the           *)
(* multipleToolchainLibrary wrapping it, both named by the identifier of   *)
(* the Library value in `libs`.                                            *)
(***************************************************************************)
LibIds == {"a", "b", "c"}

\* The nil interface value of a Toolchain field left unspecified.
NilToolchain ==
    [ToolchainName |-> "<nil>", Cxx |-> "", Ar |-> "", Ld |-> "",
     Includes |-> <<>>, Deps |-> <<>>, LinkerScript |-> NoPath,
     CompilerFlags |-> <<>>, LinkerFlags |-> <<>>, CompatibleWith |-> <<>>]

NoLib ==
    [Out |-> NoPath, Srcs |-> <<>>, Blobs |-> <<>>, Objs |-> <<>>, Includes |-> <<>>,
     CompilerFlags |-> <<>>, Deps |-> <<>>, Shared |-> FALSE, AlwaysLink |-> FALSE,
     Toolchain |-> NilToolchain]
LibRef(id) == [kind |-> "lib", id |-> id]
MtlRef(id) == [kind |-> "mtl", id |-> id]
\* A Library value used as a Dep where it stands (append(..., lib)).
ValRef(lib) == [kind |-> "val", lib |-> lib]

(***************************************************************************)
(* Toolchains (GccToolchain values).                                       *)
(***************************************************************************)
NativeGcc ==
    [ToolchainName |-> "native-gcc", Cxx |-> "g++", Ar |-> "ar", Ld |-> "ld",
     Includes |-> <<>>, Deps |-> <<>>, LinkerScript |-> NoPath,
     CompilerFlags |-> <<"-std=c++14", "-O3", "-fdiagnostics-color=always">>,
     LinkerFlags |-> <<"-fdiagnostics-color=always">>,
     CompatibleWith |-> <<>>]

\* A cross toolchain with a standard library and a link script; it accepts
\* libraries built with native-gcc.
Arm ==
    [ToolchainName |-> "arm", Cxx |-> "arm-g++", Ar |-> "arm-ar", Ld |-> "arm-ld",
     Includes |-> <<SourcePath("arm-include", "")>>,
     Deps |-> <<MtlRef("c")>>,
     LinkerScript |-> SourcePath("arm", "ld"),
     CompilerFlags |-> <<"-Os">>, LinkerFlags |-> <<"-ffreestanding">>,
     CompatibleWith |-> <<"native-gcc">>]

\* A second toolchain value that carries the name "arm".
ArmOther == [Arm EXCEPT !.Cxx = "clang++", !.Deps = <<>>, !.CompatibleWith = <<>>]

\* A testing toolchain that accepts libraries built with arm.
Test ==
    [ToolchainName |-> "test", Cxx |-> "test-g++", Ar |-> "ar", Ld |-> "ld",
     Includes |-> <<>>, Deps |-> <<>>, LinkerScript |-> NoPath,
     CompilerFlags |-> <<"-O0">>, LinkerFlags |-> <<>>,
     CompatibleWith |-> <<"arm">>]

Toolchains == {NativeGcc, Arm, ArmOther, Test}
Registered == {NativeGcc, Arm, ArmOther}   \* the values packages register
FlagValues == {"native-gcc", "arm"}

Name(tc) == tc.ToolchainName
StdDeps(tc) == tc.Deps
Script(tc) == tc.LinkerScript

Accepts(gcc, tc) == \E i \in 1..Len(gcc.CompatibleWith) : gcc.CompatibleWith[i] = Name(tc)

\* Mutant: the acceptance predicate of the child is asked about the parent.
ToolchainAcceptsSwapped(parent, child) ==
    IF Name(parent) = Name(child) THEN TRUE ELSE Accepts(child, parent)

ToolchainAccepts(parent, child) ==
    IF Name(parent) = Name(child) THEN TRUE ELSE Accepts(parent, child)

(***************************************************************************)
(* The registry and the default toolchain.  An operation that can abort    *)
(* returns a record with the error in field err.                           *)
(***************************************************************************)
DefaultToolchain ==
    IF flag \in DOMAIN toolchains
    THEN [err |-> OK, tc |-> toolchains[flag]]
    ELSE [err |-> ErrNoToolchain, tc |-> NilToolchain]

toolchainOrDefault(toolchain) ==
    IF toolchain = NilToolchain THEN DefaultToolchain
    ELSE [err |-> OK, tc |-> toolchain]

(***************************************************************************)
(* Resolution of a dependency reference to a Library under a toolchain.    *)
(***************************************************************************)
\* Library.CcLibrary
LibraryCcLibrary(lib, toolchain) ==
    LET t == toolchainOrDefault(toolchain)
        lt == toolchainOrDefault(lib.Toolchain)
    IN  IF t.err # OK THEN [err |-> t.err, lib |-> NoLib]
        ELSE IF lt.err # OK THEN [err |-> lt.err, lib |-> NoLib]
        ELSE IF ~ToolchainAccepts(t.tc, lt.tc)
             THEN \* the message is formatted from lib.Out.Relative()
                  IF lib.Out = NoPath THEN [err |-> ErrNilDeref, lib |-> NoLib]
                  ELSE [err |-> ErrUnsupported, lib |-> NoLib]
        ELSE [err |-> OK, lib |-> lib]

\* Library.MultipleToolchains: the wrapper keeps the Library and its Out.
MultipleToolchains(lib) == [baseOut |-> lib.Out, lib |-> lib]

\* Mutant: the copy is not bound to the requested toolchain.
MtlCcLibraryUnbound(mtl, toolchain) ==
    LET t == toolchainOrDefault(toolchain)
        d == DefaultToolchain
    IN  IF t.err # OK THEN [err |-> t.err, lib |-> NoLib]
        ELSE IF d.err # OK THEN [err |-> d.err, lib |-> NoLib]
        ELSE [err |-> OK,
              lib |-> [mtl.lib EXCEPT
                         !.Out = IF Name(t.tc) # Name(d.tc)
                                 THEN WithPrefix(mtl.baseOut, Name(t.tc))
                                 ELSE @]]

\* multipleToolchainLibrary.CcLibrary
MtlCcLibrary(mtl, toolchain) ==
    LET t == toolchainOrDefault(toolchain)
        d == DefaultToolchain
    IN  IF t.err # OK THEN [err |-> t.err, lib |-> NoLib]
        ELSE IF d.err # OK THEN [err |-> d.err, lib |-> NoLib]
        ELSE [err |-> OK,
              lib |-> [mtl.lib EXCEPT
                         !.Out = IF Name(t.tc) # Name(d.tc)
                                 THEN WithPrefix(mtl.baseOut, Name(t.tc))
                                 ELSE @,
                         !.Toolchain = t.tc]]

\* Dep.CcLibrary, dispatched on the dynamic type of the reference.
CcLibrary(dep, toolchain) ==
    CASE dep.kind = "lib" -> LibraryCcLibrary(libs[dep.id], toolchain)
      [] dep.kind = "mtl" -> MtlCcLibrary(MultipleToolchains(libs[dep.id]), toolchain)
      [] dep.kind = "val" -> LibraryCcLibrary(dep.lib, toolchain)

(***************************************************************************)
(* The dependency collector.                                               *)
(***************************************************************************)
RECURSIVE collectDepsWithToolchainRec(_, _, _)
\* Mutant: the visited set is passed by value, so what a subtree visited is
\* forgotten when the loop moves to the next reference.
collectDepsVisitedByValue(toolchain, deps, visited) ==
    IF deps = <<>> THEN [err |-> OK, flatDeps |-> <<>>, visited |-> visited]
    ELSE
      LET r == CcLibrary(Head(deps), toolchain) IN
      IF r.err # OK THEN [err |-> r.err, flatDeps |-> <<>>, visited |-> visited]
      ELSE IF r.lib.Out = NoPath
           THEN [err |-> ErrNilDeref, flatDeps |-> <<>>, visited |-> visited]
      ELSE
        LET libPath == Absolute(r.lib.Out) IN
        IF libPath \notin visited
        THEN LET sub == collectDepsWithToolchainRec(toolchain, r.lib.Deps,
                                                    visited \cup {libPath})
             IN  IF sub.err # OK THEN sub
                 ELSE LET rest == collectDepsWithToolchainRec(toolchain, Tail(deps),
                                                              visited \cup {libPath})
                      IN  [err |-> rest.err,
                           flatDeps |-> IF rest.err # OK THEN <<>>
                                        ELSE <<r.lib>> \o sub.flatDeps \o rest.flatDeps,
                           visited |-> rest.visited]
        ELSE collectDepsWithToolchainRec(toolchain, Tail(deps), visited)

\* Mutant: the references of a library are resolved under the library's own
\* toolchain.
collectDepsUnderOwn(toolchain, deps, visited) ==
    IF deps = <<>> THEN [err |-> OK, flatDeps |-> <<>>, visited |-> visited]
    ELSE
      LET r == CcLibrary(Head(deps), toolchain) IN
      IF r.err # OK THEN [err |-> r.err, flatDeps |-> <<>>, visited |-> visited]
      ELSE IF r.lib.Out = NoPath
           THEN [err |-> ErrNilDeref, flatDeps |-> <<>>, visited |-> visited]
      ELSE
        LET libPath == Absolute(r.lib.Out) IN
        IF libPath \notin visited
        THEN LET sub == collectDepsWithToolchainRec(toolchainOrDefault(r.lib.Toolchain).tc,
                                                    r.lib.Deps, visited \cup {libPath})
             IN  IF sub.err # OK THEN sub
                 ELSE LET rest == collectDepsWithToolchainRec(toolchain, Tail(deps),
                                                              sub.visited)
                      IN  [err |-> rest.err,
                           flatDeps |-> IF rest.err # OK THEN <<>>
                                        ELSE <<r.lib>> \o sub.flatDeps \o rest.flatDeps,
                           visited |-> rest.visited]
        ELSE collectDepsWithToolchainRec(toolchain, Tail(deps), visited)

\* Mutant: a library is appended after the libraries discovered through it.
collectDepsPostOrder(toolchain, deps, visited) ==
    IF deps = <<>> THEN [err |-> OK, flatDeps |-> <<>>, visited |-> visited]
    ELSE
      LET r == CcLibrary(Head(deps), toolchain) IN
      IF r.err # OK THEN [err |-> r.err, flatDeps |-> <<>>, visited |-> visited]
      ELSE IF r.lib.Out = NoPath
           THEN [err |-> ErrNilDeref, flatDeps |-> <<>>, visited |-> visited]
      ELSE
        LET libPath == Absolute(r.lib.Out) IN
        IF libPath \notin visited
        THEN LET sub == collectDepsWithToolchainRec(toolchain, r.lib.Deps,
                                                    visited \cup {libPath})
             IN  IF sub.err # OK THEN sub
                 ELSE LET rest == collectDepsWithToolchainRec(toolchain, Tail(deps),
                                                              sub.visited)
                      IN  [err |-> rest.err,
                           flatDeps |-> IF rest.err # OK THEN <<>>
                                        ELSE sub.flatDeps \o <<r.lib>> \o rest.flatDeps,
                           visited |-> rest.visited]
        ELSE collectDepsWithToolchainRec(toolchain, Tail(deps), visited)

collectDepsWithToolchainRec(toolchain, deps, visited) ==
    IF deps = <<>> THEN [err |-> OK, flatDeps |-> <<>>, visited |-> visited]
    ELSE
      LET r == CcLibrary(Head(deps), toolchain) IN
      IF r.err # OK THEN [err |-> r.err, flatDeps |-> <<>>, visited |-> visited]
      ELSE IF r.lib.Out = NoPath  \* lib.Out.Absolute() on a nil Out
           THEN [err |-> ErrNilDeref, flatDeps |-> <<>>, visited |-> visited]
      ELSE
        LET libPath == Absolute(r.lib.Out) IN
        IF libPath \notin visited
        THEN LET sub == collectDepsWithToolchainRec(toolchain, r.lib.Deps,
                                                    visited \cup {libPath})
             IN  IF sub.err # OK THEN sub
                 ELSE LET rest == collectDepsWithToolchainRec(toolchain, Tail(deps),
                                                              sub.visited)
                      IN  [err |-> rest.err,
                           flatDeps |-> IF rest.err # OK THEN <<>>
                                        ELSE <<r.lib>> \o sub.flatDeps \o rest.flatDeps,
                           visited |-> rest.visited]
        ELSE collectDepsWithToolchainRec(toolchain, Tail(deps), visited)

collectDepsWithToolchain(toolchain, deps) ==
    collectDepsWithToolchainRec(toolchain, deps, {})

(***************************************************************************)
(* Command strings.  A command is the sequence of its words; a word is a   *)
(* literal, or a path or tool printed with %q.                             *)
(***************************************************************************)
Lit(s) == [t |-> "lit", v |-> <<s>>]
Tool(s) == [t |-> "q", v |-> <<s>>]
Quoted(p) == [t |-> "q", v |-> Absolute(p)]
IncludeFlag(p) == [t |-> "-I", v |-> Absolute(p)]
WholeArchive == Lit("-Wl,-whole-archive")
NoWholeArchive == Lit("-Wl,-no-whole-archive")

Lits(ss) == [i \in 1..Len(ss) |-> Lit(ss[i])]
joinQuoted(paths) == [i \in 1..Len(paths) |-> Quoted(paths[i])]

\* GccToolchain.ObjectFile
GccObjectFile(gcc, out, depfile, flags, includes, src) ==
    <<Tool(gcc.Cxx), Lit("-pipe"), Lit("-c"), Lit("-o"), Quoted(out),
      Lit("-MD"), Lit("-MF"), Quoted(depfile)>>
    \o Lits(gcc.CompilerFlags \o flags)
    \o [i \in 1..Len(includes) |-> IncludeFlag(includes[i])]
    \o Concat([i \in 1..Len(gcc.Includes) |-> <<Lit("-isystem"), Quoted(gcc.Includes[i])>>])
    \o <<Quoted(src)>>

\* Mutant: the archiver runs only if the deletion succeeded.
GccStaticLibraryAndThen(gcc, out, objs) ==
    <<Lit("rm"), Quoted(out), Lit("2>/dev/null"), Lit("&&"),
      Tool(gcc.Ar), Lit("rcs"), Quoted(out)>> \o joinQuoted(objs)

\* GccToolchain.StaticLibrary
GccStaticLibrary(gcc, out, objs) ==
    <<Lit("rm"), Quoted(out), Lit("2>/dev/null"), Lit(";"),
      Tool(gcc.Ar), Lit("rcs"), Quoted(out)>> \o joinQuoted(objs)

\* GccToolchain.SharedLibrary
GccSharedLibrary(gcc, out, objs) ==
    <<Tool(gcc.Cxx), Lit("-pipe"), Lit("-shared"), Lit("-o"), Quoted(out)>>
    \o joinQuoted(objs)

\* Mutant: the toolchain's link script is preferred to the explicit one.
GccBinaryToolchainScriptFirst(gcc, out, objs, alwaysLinkLibs, otherLibs, flags, script) ==
    LET fl == Lits(gcc.LinkerFlags \o flags)
              \o (IF gcc.LinkerScript # NoPath
                  THEN <<Lit("-T"), Quoted(gcc.LinkerScript)>>
                  ELSE IF script # NoPath THEN <<Lit("-T"), Quoted(script)>>
                       ELSE <<>>)
    IN  <<Tool(gcc.Cxx), Lit("-pipe"), Lit("-o"), Quoted(out)>>
        \o joinQuoted(objs)
        \o <<WholeArchive>> \o joinQuoted(alwaysLinkLibs)
        \o <<NoWholeArchive>> \o joinQuoted(otherLibs)
        \o fl

\* GccToolchain.Binary
GccBinary(gcc, out, objs, alwaysLinkLibs, otherLibs, flags, script) ==
    LET fl == Lits(gcc.LinkerFlags \o flags)
              \o (IF script # NoPath THEN <<Lit("-T"), Quoted(script)>>
                  ELSE IF gcc.LinkerScript # NoPath
                       THEN <<Lit("-T"), Quoted(gcc.LinkerScript)>>
                       ELSE <<>>)
    IN  <<Tool(gcc.Cxx), Lit("-pipe"), Lit("-o"), Quoted(out)>>
        \o joinQuoted(objs)
        \o <<WholeArchive>> \o joinQuoted(alwaysLinkLibs)
        \o <<NoWholeArchive>> \o joinQuoted(otherLibs)
        \o fl

\* GccToolchain.BlobObject
GccBlobObject(gcc, out, src) ==
    <<Tool(gcc.Ld), Lit("-r"), Lit("-b"), Lit("binary"), Lit("-o"), Quoted(out), Quoted(src)>>

(***************************************************************************)
(* The engine context (core.Context), threaded through a build as the      *)
(* record c: the paths built, the steps emitted, the error that aborted    *)
(* the process and the stack of trace labels.  Once c.fatal is set the     *)
(* process is gone and nothing more happens.                               *)
(***************************************************************************)
Fatal(c, e) == [c EXCEPT !.fatal = e]
Label(kind, out) == [kind |-> kind, path |-> Relative(out)]
WithTrace(c, label) == [c EXCEPT !.trace = Append(@, label)]
EndTrace(c) ==
    IF c.fatal # OK THEN c ELSE [c EXCEPT !.trace = SubSeq(@, 1, Len(@) - 1)]
AlreadyBuilt(c, path) == path \in c.built
MarkBuilt(c, path) == [c EXCEPT !.built = @ \cup {path}]
\* A step is recorded with the trace it was emitted under.
AddBuildStep(c, step) ==
    [c EXCEPT !.steps = Append(@, [Out |-> step.Out, In |-> step.In, Ins |-> step.Ins,
                                   Depfile |-> step.Depfile, Cmd |-> step.Cmd,
                                   Descr |-> step.Descr, scope |-> c.trace])]
Descr(verb, toolchain, out) ==
    [verb |-> verb, toolchain |-> Name(toolchain), path |-> Relative(out)]

(***************************************************************************)
(* ObjectFile and BlobObject.                                              *)
(***************************************************************************)
\* Mutant: the object is placed under the name of the default toolchain.
ObjectFileOutDefaultName(obj) ==
    WithExt(WithPrefix(obj.Src, Name(DefaultToolchain.tc)), "o")

ObjectFileOut(obj) ==
    WithExt(WithPrefix(obj.Src, Name(toolchainOrDefault(obj.Toolchain).tc)), "o")

ObjectFileBuild(obj, c) ==
    LET t == toolchainOrDefault(obj.Toolchain)
        out == ObjectFileOut(obj)
        depfile == WithExt(out, "d")
        cmd == GccObjectFile(t.tc, out, depfile, obj.Flags, obj.Includes, obj.Src)
    IN  IF c.fatal # OK THEN c
        ELSE IF t.err # OK THEN Fatal(c, t.err)
        ELSE EndTrace(AddBuildStep(WithTrace(c, Label("obj", out)),
                 [Out |-> out, Depfile |-> depfile, In |-> obj.Src, Ins |-> <<>>,
                  Cmd |-> cmd, Descr |-> Descr("CC", t.tc, out)]))

BlobObjectOut(blob) ==
    WithExt(WithPrefix(blob.In, Name(toolchainOrDefault(blob.Toolchain).tc)), "blob.o")

BlobObjectBuild(blob, c) ==
    LET t == toolchainOrDefault(blob.Toolchain)
        out == BlobObjectOut(blob)
    IN  IF c.fatal # OK THEN c
        ELSE IF t.err # OK THEN Fatal(c, t.err)
        ELSE IF blob.Toolchain = NilToolchain
             THEN \* Cmd: blob.Toolchain.BlobObject(...) calls through the field
                  Fatal(WithTrace(c, Label("blob", out)), ErrNilDeref)
        ELSE EndTrace(AddBuildStep(WithTrace(c, Label("blob", out)),
                 [Out |-> out, Depfile |-> NoPath, In |-> blob.In, Ins |-> <<>>,
                  Cmd |-> GccBlobObject(blob.Toolchain, out, blob.In),
                  Descr |-> Descr("BLOB", t.tc, out)]))

RECURSIVE compileEach(_, _, _, _, _)
compileEach(c, srcs, flags, includes, toolchain) ==
    IF srcs = <<>> \/ c.fatal # OK THEN [c |-> c, objs |-> <<>>]
    ELSE LET obj == [Src |-> Head(srcs), Includes |-> includes, Flags |-> flags,
                     Toolchain |-> toolchain]
             rest == compileEach(ObjectFileBuild(obj, c), Tail(srcs), flags, includes,
                                 toolchain)
         IN  [c |-> rest.c, objs |-> <<ObjectFileOut(obj)>> \o rest.objs]

\* Mutant: the last library of the closure is left out of the include list.
compileSourcesShort(c, srcs, flags, deps, toolchain) ==
    LET includes == <<SourcePath("", "")>>
                    \o Concat([i \in 1..(Len(deps) - 1) |-> deps[i].Includes])
    IN  compileEach(c, srcs, flags, includes, toolchain)

compileSources(c, srcs, flags, deps, toolchain) ==
    LET includes == <<SourcePath("", "")>>
                    \o Concat([i \in 1..Len(deps) |-> deps[i].Includes])
    IN  compileEach(c, srcs, flags, includes, toolchain)

RECURSIVE buildBlobs(_, _, _)
buildBlobs(c, blobs, toolchain) ==
    IF blobs = <<>> \/ c.fatal # OK THEN [c |-> c, objs |-> <<>>]
    ELSE LET blobObject == [In |-> Head(blobs), Toolchain |-> toolchain]
             rest == buildBlobs(BlobObjectBuild(blobObject, c), Tail(blobs), toolchain)
         IN  [c |-> rest.c, objs |-> <<BlobObjectOut(blobObject)>> \o rest.objs]

(***************************************************************************)
(* Library, multipleToolchainLibrary and Binary.                           *)
(***************************************************************************)
RECURSIVE LibraryBuild(_, _), Library_build(_, _), buildDeps(_, _)

\* for _, d := range deps { d.Build(ctx) }
buildDeps(deps, c) ==
    IF deps = <<>> \/ c.fatal # OK THEN c
    ELSE buildDeps(Tail(deps), LibraryBuild(Head(deps), c))

\* Mutant: a build that finds its output path already built skips only the
\* dependencies and emits the library's own steps again.
Library_buildNoReturn(lib, c) ==
    IF lib.Out = NoPath THEN Fatal(c, ErrOutRequired)
    ELSE
      LET c1 == MarkBuilt(c, Absolute(lib.Out))
          t == toolchainOrDefault(lib.Toolchain)
          toolchain == t.tc
          cl == collectDepsWithToolchain(toolchain, StdDeps(toolchain) \o <<ValRef(lib)>>)
          deps == cl.flatDeps
          c2 == IF AlreadyBuilt(c, Absolute(lib.Out)) THEN c1 ELSE buildDeps(deps, c1)
          cs == compileSources(c2, lib.Srcs, lib.CompilerFlags, deps, toolchain)
          bl == buildBlobs(cs.c, lib.Blobs, toolchain)
          objs == cs.objs \o lib.Objs \o bl.objs
          cmd == IF lib.Shared THEN GccSharedLibrary(toolchain, lib.Out, objs)
                 ELSE GccStaticLibrary(toolchain, lib.Out, objs)
          descr == Descr(IF lib.Shared THEN "LD" ELSE "AR", toolchain, lib.Out)
      IN  IF t.err # OK THEN Fatal(c1, t.err)
          ELSE IF cl.err # OK THEN Fatal(c1, cl.err)
          ELSE IF bl.c.fatal # OK THEN bl.c
          ELSE AddBuildStep(bl.c, [Out |-> lib.Out, Depfile |-> NoPath, In |-> NoPath,
                                   Ins |-> objs, Cmd |-> cmd, Descr |-> descr])

\* Mutant: the library's own steps are emitted before its dependencies are
\* built.
Library_buildDepsLast(lib, c) ==
    IF lib.Out = NoPath THEN Fatal(c, ErrOutRequired)
    ELSE IF AlreadyBuilt(c, Absolute(lib.Out)) THEN c
    ELSE
      LET c1 == MarkBuilt(c, Absolute(lib.Out))
          t == toolchainOrDefault(lib.Toolchain)
          toolchain == t.tc
          cl == collectDepsWithToolchain(toolchain, StdDeps(toolchain) \o <<ValRef(lib)>>)
          deps == cl.flatDeps
          cs == compileSources(c1, lib.Srcs, lib.CompilerFlags, deps, toolchain)
          bl == buildBlobs(cs.c, lib.Blobs, toolchain)
          objs == cs.objs \o lib.Objs \o bl.objs
          cmd == IF lib.Shared THEN GccSharedLibrary(toolchain, lib.Out, objs)
                 ELSE GccStaticLibrary(toolchain, lib.Out, objs)
          descr == Descr(IF lib.Shared THEN "LD" ELSE "AR", toolchain, lib.Out)
      IN  IF t.err # OK THEN Fatal(c1, t.err)
          ELSE IF cl.err # OK THEN Fatal(c1, cl.err)
          ELSE IF bl.c.fatal # OK THEN bl.c
          ELSE buildDeps(deps,
                   AddBuildStep(bl.c, [Out |-> lib.Out, Depfile |-> NoPath, In |-> NoPath,
                                       Ins |-> objs, Cmd |-> cmd, Descr |-> descr]))

\* Library.build.  The stages are written as local operators so that each
\* intermediate value of the function body (toolchain, deps, objs) is named once.
Library_build(lib, c) ==
    LET archive(toolchain, objs, c3) ==
            AddBuildStep(c3, [Out |-> lib.Out, Depfile |-> NoPath, In |-> NoPath,
                              Ins |-> objs,
                              Cmd |-> IF lib.Shared
                                      THEN GccSharedLibrary(toolchain, lib.Out, objs)
                                      ELSE GccStaticLibrary(toolchain, lib.Out, objs),
                              Descr |-> Descr(IF lib.Shared THEN "LD" ELSE "AR",
                                              toolchain, lib.Out)])
        blobs(toolchain, objs, bl) ==
            IF bl.c.fatal # OK THEN bl.c
            ELSE archive(toolchain, objs \o lib.Objs \o bl.objs, bl.c)
        compiled(toolchain, cs) ==
            blobs(toolchain, cs.objs, buildBlobs(cs.c, lib.Blobs, toolchain))
        collected(toolchain, cl, c1) ==
            IF cl.err # OK THEN Fatal(c1, cl.err)
            ELSE compiled(toolchain,
                          compileSources(buildDeps(cl.flatDeps, c1), lib.Srcs,
                                         lib.CompilerFlags, cl.flatDeps, toolchain))
        resolved(t, c1) ==
            IF t.err # OK THEN Fatal(c1, t.err)
            ELSE collected(t.tc,
                           collectDepsWithToolchain(t.tc, StdDeps(t.tc) \o <<ValRef(lib)>>),
                           c1)
    IN  IF lib.Out = NoPath THEN Fatal(c, ErrOutRequired)
        ELSE IF AlreadyBuilt(c, Absolute(lib.Out)) THEN c
        ELSE resolved(toolchainOrDefault(lib.Toolchain), MarkBuilt(c, Absolute(lib.Out)))

\* Library.Build
LibraryBuild(lib, c) ==
    IF c.fatal # OK THEN c
    ELSE IF lib.Out = NoPath THEN Fatal(c, ErrNilDeref)  \* "lib:"+lib.Out.Relative()
    ELSE EndTrace(Library_build(lib, WithTrace(c, Label("lib", lib.Out))))

\* Mutant: the wrapper builds the variant of the toolchain the wrapped Library
\* is pinned to.
MtlBuildPinned(mtl, c) ==
    LET d == toolchainOrDefault(mtl.lib.Toolchain)
        r == MtlCcLibrary(mtl, d.tc)
    IN  IF c.fatal # OK THEN c
        ELSE IF d.err # OK THEN Fatal(c, d.err)
        ELSE IF r.err # OK THEN Fatal(c, r.err)
        ELSE LibraryBuild(r.lib, c)

\* multipleToolchainLibrary.Build
MtlBuild(mtl, c) ==
    LET d == DefaultToolchain
        r == MtlCcLibrary(mtl, d.tc)
    IN  IF c.fatal # OK THEN c
        ELSE IF d.err # OK THEN Fatal(c, d.err)
        ELSE IF r.err # OK THEN Fatal(c, r.err)
        ELSE LibraryBuild(r.lib, c)

\* Mutant: every library of the closure is also passed as an ordinary library.
Binary_buildNoElse(b, c) ==
    LET t == toolchainOrDefault(b.Toolchain)
        toolchain == t.tc
        cl == collectDepsWithToolchain(toolchain, b.Deps \o StdDeps(toolchain))
        deps == cl.flatDeps
        c2 == buildDeps(deps, c)
        cs == compileSources(c2, b.Srcs, b.CompilerFlags, deps, toolchain)
        objs == cs.objs
        outs == [i \in 1..Len(deps) |-> deps[i].Out]
        alwaysLinkLibs == SelectSeq(deps, LAMBDA d : d.AlwaysLink)
        ins == objs \o outs
               \o (IF b.Script # NoPath THEN <<b.Script>>
                   ELSE IF Script(toolchain) # NoPath THEN <<Script(toolchain)>>
                   ELSE <<>>)
        cmd == GccBinary(toolchain, b.Out, objs,
                         [i \in 1..Len(alwaysLinkLibs) |-> alwaysLinkLibs[i].Out],
                         outs, b.LinkerFlags, b.Script)
    IN  IF t.err # OK THEN Fatal(c, t.err)
        ELSE IF cl.err # OK THEN Fatal(c, cl.err)
        ELSE IF cs.c.fatal # OK THEN cs.c
        ELSE AddBuildStep(cs.c, [Out |-> b.Out, Depfile |-> NoPath, In |-> NoPath,
                                 Ins |-> ins, Cmd |-> cmd,
                                 Descr |-> Descr("LD", toolchain, b.Out)])

\* Binary.build, staged like Library.build.
Binary_build(b, c) ==
    LET outs(ds) == [i \in 1..Len(ds) |-> ds[i].Out]
        link(toolchain, deps, objs, c3) ==
            AddBuildStep(c3, [Out |-> b.Out, Depfile |-> NoPath, In |-> NoPath,
                              Ins |-> objs \o outs(deps)
                                      \o (IF b.Script # NoPath THEN <<b.Script>>
                                          ELSE IF Script(toolchain) # NoPath
                                          THEN <<Script(toolchain)>>
                                          ELSE <<>>),
                              Cmd |-> GccBinary(toolchain, b.Out, objs,
                                          outs(SelectSeq(deps, LAMBDA d : d.AlwaysLink)),
                                          outs(SelectSeq(deps, LAMBDA d : ~d.AlwaysLink)),
                                          b.LinkerFlags, b.Script),
                              Descr |-> Descr("LD", toolchain, b.Out)])
        compiled(toolchain, deps, cs) ==
            IF cs.c.fatal # OK THEN cs.c
            ELSE link(toolchain, deps, cs.objs, cs.c)
        collected(toolchain, cl) ==
            IF cl.err # OK THEN Fatal(c, cl.err)
            ELSE compiled(toolchain, cl.flatDeps,
                          compileSources(buildDeps(cl.flatDeps, c), b.Srcs,
                                         b.CompilerFlags, cl.flatDeps, toolchain))
        resolved(t) ==
            IF t.err # OK THEN Fatal(c, t.err)
            ELSE collected(t.tc,
                           collectDepsWithToolchain(t.tc, b.Deps \o StdDeps(t.tc)))
    IN  resolved(toolchainOrDefault(b.Toolchain))

\* Binary.Build
BinaryBuild(b, c) ==
    IF c.fatal # OK THEN c
    ELSE IF b.Out = NoPath THEN Fatal(c, ErrOutRequired)
    ELSE EndTrace(Binary_build(b, WithTrace(c, Label("bin", b.Out))))

(***************************************************************************)
(* The descriptions a process can start from: three libraries a, b, c with *)
(* any subset of the candidate dependency edges (chains, a diamond, a      *)
(* cycle, a self-reference), a binary that depends on a and b, a           *)
(* standalone object file and blob object, and at most one departure from  *)
(* the plain attributes.  c is also exported as a multi-toolchain library  *)
(* (it is the standard dependency of Arm).                                 *)
(***************************************************************************)
Edges == {<<"a", "b">>, <<"a", "c">>, <<"b", "c">>}
Order == <<"a", "b", "c">>

Quirks == {"c-dep-a", "c-dep-c", "b-out-nil", "b-out-is-a", "b-src-is-a", "b-blob", "b-always", "c-always",
           "a-shared", "b-pin-gcc", "b-pin-arm", "c-pin-test", "c-multi", "bin-arm",
           "bin-test", "bin-script", "bin-out-nil", "units-pin-gcc", "units-pin-arm",
           "a-pin-gcc", "a-blob"}

\* No departure, one departure, the loop through a pinned library (c, named
\* through its wrapper, depends on a, and a is pinned to native-gcc), or two
\* libraries of different toolchains with the same source and blob.
QuirkSets ==
    {{}} \cup {{x} : x \in Quirks}
    \cup {{"c-dep-a", "c-multi", "a-pin-gcc"}, {"a-blob", "b-blob", "b-src-is-a", "b-pin-arm"}}

DepsOf(id, shape, q) ==
    LET ts == SelectSeq(Order, LAMBDA t : \/ <<id, t>> \in shape
                                          \/ id = "c" /\ t = "a" /\ "c-dep-a" \in q
                                          \/ id = "c" /\ t = "c" /\ "c-dep-c" \in q)
    IN  [i \in 1..Len(ts) |-> IF ts[i] = "c" /\ "c-multi" \in q
                              THEN MtlRef(ts[i]) ELSE LibRef(ts[i])]

Describe(id, shape, q) ==
    [Out |-> CASE id = "b" /\ "b-out-nil" \in q -> NoPath
               [] id = "b" /\ "b-out-is-a" \in q -> OutPath("a", "a")
               [] OTHER -> OutPath(id, "a"),
     Srcs |-> IF id = "b" /\ "b-src-is-a" \in q THEN <<SourcePath("a", "cc")>>
              ELSE <<SourcePath(id, "cc")>>,
     Blobs |-> IF (id = "b" /\ "b-blob" \in q) \/ (id = "a" /\ "a-blob" \in q)
               THEN <<SourcePath("data", "bin")>> ELSE <<>>,
     Objs |-> <<>>,
     Includes |-> <<SourcePath(id, "include")>>,
     CompilerFlags |-> <<>>,
     Deps |-> DepsOf(id, shape, q),
     Shared |-> (id = "a" /\ "a-shared" \in q),
     AlwaysLink |-> ((id = "b" /\ "b-always" \in q) \/ (id = "c" /\ "c-always" \in q)),
     Toolchain |-> CASE id = "a" /\ "a-pin-gcc" \in q -> NativeGcc
                     [] id = "b" /\ "b-pin-gcc" \in q -> NativeGcc
                     [] id = "b" /\ "b-pin-arm" \in q -> Arm
                     [] id = "c" /\ "c-pin-test" \in q -> Test
                     [] OTHER -> NilToolchain]

DescribeBinary(q) ==
    [Out |-> IF "bin-out-nil" \in q THEN NoPath ELSE OutPath("app", ""),
     Srcs |-> <<SourcePath("main", "cc")>>,
     CompilerFlags |-> <<>>,
     LinkerFlags |-> <<"-lm">>,
     Deps |-> <<LibRef("a"), LibRef("b")>>,
     Script |-> IF "bin-script" \in q THEN SourcePath("app", "ld") ELSE NoPath,
     Toolchain |-> CASE "bin-arm" \in q -> Arm
                     [] "bin-test" \in q -> Test
                     [] OTHER -> NilToolchain,
     \* the Toolchain field of the standalone ObjectFile and BlobObject
     Units |-> CASE "units-pin-gcc" \in q -> NativeGcc
                 [] "units-pin-arm" \in q -> Arm
                 [] OTHER -> NilToolchain]

NoRet == [op |-> "none"]

Context == [built |-> built, steps |-> steps, fatal |-> fatal, trace |-> <<>>]

Init ==
    /\ toolchains = [n \in {Name(NativeGcc)} |-> NativeGcc]
    /\ flag \in FlagValues
    /\ \E shape \in SUBSET Edges, q \in QuirkSets :
         /\ libs = [id \in LibIds |-> Describe(id, shape, q)]
         /\ bin = DescribeBinary(q)
    /\ built = {}
    /\ steps = <<>>
    /\ fatal = OK
    /\ calls = <<>>
    /\ ret = NoRet

(***************************************************************************)
(* Actions: the entry points a process invokes.                            *)
(***************************************************************************)
\* Mutant: a registration under a name already taken replaces the entry.
RegisterToolchainOverwrite(toolchain) ==
    /\ fatal = OK
    /\ calls = <<>>
    /\ ret = NoRet
    /\ toolchains' = [n \in DOMAIN toolchains \cup {Name(toolchain)} |->
                        IF n = Name(toolchain) THEN toolchain ELSE toolchains[n]]
    /\ toolchains' # toolchains
    /\ UNCHANGED <<flag, libs, bin, built, steps, fatal, calls, ret>>

\* RegisterToolchain, called while the packages initialise.
RegisterToolchain(toolchain) ==
    /\ fatal = OK
    /\ calls = <<>>
    /\ ret = NoRet
    /\ IF Name(toolchain) \in DOMAIN toolchains
       THEN /\ fatal' = ErrDuplicate
            /\ UNCHANGED toolchains
       ELSE /\ toolchains' = [n \in DOMAIN toolchains \cup {Name(toolchain)} |->
                                 IF n = Name(toolchain) THEN toolchain ELSE toolchains[n]]
            /\ UNCHANGED fatal
    /\ UNCHANGED <<flag, libs, bin, built, steps, calls, ret>>

Invoke(call, c) ==
    /\ fatal = OK
    /\ Len(calls) < MaxCalls
    /\ built' = c.built
    /\ steps' = c.steps
    /\ fatal' = c.fatal
    /\ calls' = Append(calls, call)
    /\ UNCHANGED <<toolchains, flag, libs, bin, ret>>

BuildLibrary(id) ==
    Invoke([op |-> "Library", id |-> id], LibraryBuild(libs[id], Context))

BuildMultipleToolchains ==
    Invoke([op |-> "multipleToolchainLibrary", id |-> "c"],
           MtlBuild(MultipleToolchains(libs["c"]), Context))

BuildBinary ==
    Invoke([op |-> "Binary", id |-> "app"], BinaryBuild(bin, Context))

\* The standalone ObjectFile and BlobObject of the description.
ObjectUnit ==
    [Src |-> SourcePath("a", "cc"), Includes |-> <<>>, Flags |-> <<>>,
     Toolchain |-> bin.Units]
BlobUnit == [In |-> SourcePath("data", "bin"), Toolchain |-> bin.Units]

BuildObjectFile ==
    Invoke([op |-> "ObjectFile", id |-> "a"], ObjectFileBuild(ObjectUnit, Context))

BuildBlobObject ==
    Invoke([op |-> "BlobObject", id |-> "data"], BlobObjectBuild(BlobUnit, Context))

Next ==
    \/ \E toolchain \in Registered : RegisterToolchain(toolchain)
    \/ \E id \in LibIds : BuildLibrary(id)
    \/ BuildMultipleToolchains
    \/ BuildBinary
    \/ BuildObjectFile
    \/ BuildBlobObject

Spec == Init /\ [][Next]_vars

(***************************************************************************)
(* A second specification applies the pure operations (reference           *)
(* resolution and closure computation) to every reference, seed list and   *)
(* requesting toolchain of the description, once the packages have         *)
(* initialised, and records what the operation returned.                   *)
(***************************************************************************)
Refs == {LibRef(id) : id \in LibIds} \cup {MtlRef("c")}

SeedLists(toolchain) ==
    {<<r>> : r \in Refs}
    \cup {libs[id].Deps : id \in LibIds}
    \cup {bin.Deps \o StdDeps(toolchain), <<MtlRef("c"), LibRef("c")>>}

Resolve(dep, toolchain) ==
    /\ fatal = OK
    /\ ret = NoRet
    /\ ret' = [op |-> "CcLibrary", dep |-> dep, toolchain |-> toolchain,
                res |-> CcLibrary(dep, toolchain)]
    /\ UNCHANGED <<toolchains, flag, libs, bin, built, steps, fatal, calls>>

Collect(toolchain, deps) ==
    /\ fatal = OK
    /\ ret = NoRet
    /\ ret' = [op |-> "collectDepsWithToolchain", deps |-> deps, toolchain |-> toolchain,
                res |-> collectDepsWithToolchain(toolchain, deps)]
    /\ UNCHANGED <<toolchains, flag, libs, bin, built, steps, fatal, calls>>

NextResolve ==
    \/ \E toolchain \in Registered : RegisterToolchain(toolchain)
    \/ \E dep \in Refs, toolchain \in Toolchains \cup {NilToolchain} :
          Resolve(dep, toolchain)
    \/ \E toolchain \in Toolchains : \E deps \in SeedLists(toolchain) :
          Collect(toolchain, deps)

SpecResolve == Init /\ [][NextResolve]_vars

(***************************************************************************)
(* Properties.                                                             *)
(***************************************************************************)
PathsOf(flat) == [i \in 1..Len(flat) |-> Absolute(flat[i].Out)]
NoDuplicates(s) == \A i, j \in 1..Len(s) : i # j => s[i] # s[j]

\* The libraries some chain of references reaches from the seeds, every
\* reference resolved under the one toolchain: a least fixed point, computed
\* without a visited set.
ResolvedOK(refs, toolchain) ==
    {x.lib : x \in {y \in {CcLibrary(r, toolchain) : r \in refs} : y.err = OK}}
RefsOf(S) == UNION {Range(l.Deps) : l \in S}
RECURSIVE ReachFrom(_, _)
ReachFrom(S, toolchain) ==
    LET more == S \cup ResolvedOK(RefsOf(S), toolchain)
    IN  IF more = S THEN S ELSE ReachFrom(more, toolchain)
Reachable(toolchain, seeds) == ReachFrom(ResolvedOK(Range(seeds), toolchain), toolchain)
NoFatalResolution(toolchain, seeds) ==
    \A r \in Range(seeds) \cup RefsOf(Reachable(toolchain, seeds)) :
        CcLibrary(r, toolchain).err = OK /\ CcLibrary(r, toolchain).lib.Out # NoPath
\* Libraries that resolve to one output path list the same dependencies, as
\* they do when an output path identifies a library.
PathsIdentifyLibraries(toolchain, seeds) ==
    \A l1, l2 \in Reachable(toolchain, seeds) :
        Absolute(l1.Out) = Absolute(l2.Out) => l1.Deps = l2.Deps
Collected == ret.op = "collectDepsWithToolchain"

\* C1 as stated: for every dependency graph and toolchain with no fatal
\* resolution, the closure has no two entries with the same absolute output
\* path and holds every reachable output path.
C1_AsStated ==
    (Collected /\ NoFatalResolution(ret.toolchain, ret.deps)) =>
        /\ ret.res.err = OK
        /\ NoDuplicates(PathsOf(ret.res.flatDeps))
        /\ {Absolute(l.Out) : l \in Reachable(ret.toolchain, ret.deps)}
             \subseteq Range(PathsOf(ret.res.flatDeps))

\* C1, amended: the same, for the graphs in which libraries that resolve to
\* one output path list the same dependencies; the closure then holds exactly
\* the reachable libraries' paths, each once.  Without that condition the
\* closure still never holds a path twice.
C1_ClosureExactlyOnce ==
    (Collected /\ NoFatalResolution(ret.toolchain, ret.deps)) =>
        /\ ret.res.err = OK
        /\ NoDuplicates(PathsOf(ret.res.flatDeps))
        /\ Range(ret.res.flatDeps) \subseteq Reachable(ret.toolchain, ret.deps)
        /\ PathsIdentifyLibraries(ret.toolchain, ret.deps) =>
             {Absolute(l.Out) : l \in Reachable(ret.toolchain, ret.deps)}
                = Range(PathsOf(ret.res.flatDeps))

\* A diamond: a and b are the seeds and both depend on c.
C1_Witness ==
    /\ Collected
    /\ ret.deps = <<LibRef("a"), LibRef("b")>>
    /\ LibRef("c") \in Range(libs["a"].Deps) \cap Range(libs["b"].Deps)
    /\ NoFatalResolution(ret.toolchain, ret.deps)
    /\ PathsIdentifyLibraries(ret.toolchain, ret.deps)
    /\ Len(ret.res.flatDeps) = 3

(***************************************************************************)
(* The steps of a build unit: those emitted under its trace label and not  *)
(* under the label of a unit built inside it.                              *)
(***************************************************************************)
UnitLabels(st) == {i \in 1..Len(st.scope) : st.scope[i].kind \in {"lib", "bin"}}
Owner(st) ==
    IF UnitLabels(st) = {} THEN [kind |-> "none", path |-> <<>>]
    ELSE st.scope[CHOOSE i \in UnitLabels(st) : \A j \in UnitLabels(st) : j <= i]
StepsOf(kind, path) ==
    SelectSeq(steps, LAMBDA st : Owner(st) = [kind |-> kind, path |-> path])
OutsOf(ss) == [i \in 1..Len(ss) |-> ss[i].Out]
LibraryBuilds(id) == Count(calls, [op |-> "Library", id |-> id])

\* C2: the steps of the library at an output path are emitted at most once
\* in any process, and exactly once in a process that built it and did not
\* abort: one step for each object the archive (or shared link) step
\* consumes, then that one step at the library's output path, however many
\* times the library's build was invoked.  No library step is emitted for a
\* path the engine was not asked about.
C2_BuildOnce ==
    /\ \A p \in built :
         LET own == StepsOf("lib", Tail(p))
             final == SelectSeq(own, LAMBDA st : Absolute(st.Out) = p)
         IN  /\ Len(final) <= 1
             /\ NoDuplicates(OutsOf(own))
             /\ fatal = OK =>
                  /\ Len(final) = 1
                  /\ OutsOf(own) = final[1].Ins \o <<final[1].Out>>
    /\ \A i \in 1..Len(steps) :
         Owner(steps[i]).kind = "lib" => <<"out">> \o Owner(steps[i]).path \in built

\* c is reached through a and through b in a binary build, and its build is
\* then invoked directly as well.
C2_Witness ==
    /\ fatal = OK
    /\ calls = <<[op |-> "Binary", id |-> "app"], [op |-> "Library", id |-> "c"]>>
    /\ LibRef("c") \in Range(libs["a"].Deps) \cap Range(libs["b"].Deps)
    /\ Len(StepsOf("lib", <<"c", "a">>)) = 2

(***************************************************************************)
(* Resolution of one reference.                                            *)
(***************************************************************************)
ResolvedAs(kind) == ret.op = "CcLibrary" /\ ret.dep.kind = kind
\* The toolchain a nil Toolchain stands for: the registry's entry for the flag.
Effective(toolchain) == IF toolchain = NilToolchain THEN toolchains[flag] ELSE toolchain
NeedsDefault(ts) == NilToolchain \in ts
DefaultRegistered == flag \in DOMAIN toolchains

\* C3: a plain Library pinned to X (the default when unpinned), resolved
\* under the requesting toolchain Y, is returned as it is if X and Y have the
\* same name or the name of X is in Y's acceptance list, and the resolution
\* is fatal otherwise; which of the two toolchains is asked matters.
C3_CompatibilityGate ==
    ResolvedAs("lib") =>
        LET lib == libs[ret.dep.id] IN
        IF NeedsDefault({lib.Toolchain, ret.toolchain}) /\ ~DefaultRegistered
        THEN ret.res.err = ErrNoToolchain
        ELSE LET X == Effective(lib.Toolchain)
                 Y == Effective(ret.toolchain)
             IN  IF X.ToolchainName = Y.ToolchainName
                    \/ X.ToolchainName \in Range(Y.CompatibleWith)
                 THEN ret.res.err = OK /\ ret.res.lib = lib
                 ELSE /\ ret.res.err # OK
                      /\ lib.Out # NoPath => ret.res.err = ErrUnsupported

\* Test accepts arm and arm does not accept test: a library pinned to arm
\* has been resolved under Test.
C3_Witness ==
    /\ ResolvedAs("lib")
    /\ libs[ret.dep.id].Toolchain = Arm
    /\ ret.toolchain = Test
    /\ "test" \notin Range(Arm.CompatibleWith)
    /\ ret.res.err = OK

\* C4 as stated: under the default toolchain the wrapper returns the wrapped
\* Library with every field unchanged; under another toolchain T a copy that
\* differs in Out (prefixed by T's name) and Toolchain (bound to T).
C4_AsStated ==
    (ResolvedAs("mtl") /\ DefaultRegistered) =>
        LET template == libs[ret.dep.id]
            T == Effective(ret.toolchain)
        IN  /\ ret.res.err = OK
            /\ ret.res.lib =
                 IF T.ToolchainName = toolchains[flag].ToolchainName THEN template
                 ELSE [template EXCEPT
                         !.Out = [@ EXCEPT !.pre = <<T.ToolchainName>> \o @],
                         !.Toolchain = T]

\* C4, amended: under a toolchain T with the name of the default the wrapper
\* returns a copy that differs from the wrapped Library at most in its
\* Toolchain field, which is bound to T, and keeps its output path; under any
\* other T the copy differs only in Out, which is the base path prefixed by
\* T's name, and in Toolchain, which is bound to T.
C4_ToolchainVariant ==
    (ResolvedAs("mtl") /\ DefaultRegistered) =>
        LET template == libs[ret.dep.id]
            T == Effective(ret.toolchain)
        IN  /\ ret.res.err = OK
            /\ ret.res.lib =
                 IF T.ToolchainName = toolchains[flag].ToolchainName
                 THEN [template EXCEPT !.Toolchain = T]
                 ELSE [template EXCEPT
                         !.Out = [@ EXCEPT !.pre = <<T.ToolchainName>> \o @],
                         !.Toolchain = T]
            /\ (template.Out = OutPath("c", "a") /\ T.ToolchainName = "arm"
                   /\ flag # "arm")
                 => Relative(ret.res.lib.Out) = <<"arm", "c", "a">>

\* The wrapper of c (base c.a) has been resolved under arm while the default
\* is native-gcc: its output path is arm/c.a.
C4_Witness ==
    /\ ResolvedAs("mtl")
    /\ flag = "native-gcc"
    /\ ret.toolchain = Arm
    /\ ret.res.err = OK
    /\ Relative(ret.res.lib.Out) = <<"arm", "c", "a">>
    /\ ret.res.lib.Toolchain = Arm

(***************************************************************************)
(* The registry.                                                           *)
(***************************************************************************)
\* What a step may do to the registry: nothing, or add one entry, under a
\* name that was free, for a toolchain of that name.
RegistryStep ==
    \/ /\ toolchains' = toolchains
       /\ fatal' = ErrDuplicate => \E tc \in Registered : Name(tc) \in DOMAIN toolchains
    \/ /\ fatal' = fatal
       /\ \E tc \in Registered :
            /\ tc.ToolchainName \notin DOMAIN toolchains
            /\ DOMAIN toolchains' = DOMAIN toolchains \cup {tc.ToolchainName}
            /\ toolchains'[tc.ToolchainName] = tc
            /\ \A n \in DOMAIN toolchains : toolchains'[n] = toolchains[n]
\* A registration under a name already taken aborts the process.
DuplicateIsFatal ==
    \A tc \in Registered :
        (tc.ToolchainName \in DOMAIN toolchains /\ RegisterToolchain(tc))
            => fatal' = ErrDuplicate /\ toolchains' = toolchains
\* Selecting a registered name yields the toolchain registered under it;
\* selecting any other name is fatal.
DefaultByName ==
    /\ \A n \in DOMAIN toolchains : toolchains[n].ToolchainName = n
    /\ IF flag \in DOMAIN toolchains
       THEN DefaultToolchain.err = OK /\ DefaultToolchain.tc = toolchains[flag]
       ELSE DefaultToolchain.err = ErrNoToolchain
    /\ \A i \in 1..Len(steps) :
         (calls[1].op = "ObjectFile" /\ bin.Units = NilToolchain /\ i = 1)
            => steps[i].Descr.toolchain = flag /\ steps[i].Cmd[1] = Tool(toolchains[flag].Cxx)
    /\ (calls # <<>> /\ calls[1].op = "ObjectFile" /\ bin.Units = NilToolchain
          /\ flag \notin DOMAIN toolchains) => fatal = ErrNoToolchain

\* C5: a registration under a name already in the registry is fatal and
\* leaves the registry as it was; any other registration adds exactly its
\* name and toolchain and changes no other entry, so each name keeps the
\* toolchain first registered under it; the default toolchain is the entry
\* of the selected name, and selecting an unregistered name is fatal.
C5_RegistryIntegrity ==
    /\ []DefaultByName
    /\ [][RegistryStep /\ DuplicateIsFatal]_vars

\* Two names are registered, arm was selected and resolves to the toolchain
\* registered under it, and a second registration under a taken name aborted
\* the process.
C5_Witness ==
    /\ fatal = ErrDuplicate
    /\ flag = "arm"
    /\ DOMAIN toolchains = {"native-gcc", "arm"}
    /\ toolchains["arm"] = ArmOther
    /\ DefaultToolchain.tc = ArmOther

(***************************************************************************)
(* The link command of a Binary.                                           *)
(***************************************************************************)
IsLinkOf(st, b) == Owner(st) = Label("bin", b.Out) /\ st.Out = b.Out
Positions(cmd, w) == {i \in 1..Len(cmd) : cmd[i] = w}
\* The closure the binary is linked against, computed anew.
BinaryClosure(b) ==
    collectDepsWithToolchain(Effective(b.Toolchain),
                             b.Deps \o Effective(b.Toolchain).Deps).flatDeps

ExplicitDefault(unit) ==
    IF unit.Toolchain = NilToolchain THEN [unit EXCEPT !.Toolchain = toolchains[flag]]
    ELSE unit
\* What the first entry point invoked emits from a fresh context when its
\* unit names the default toolchain explicitly.
RunExplicit(call) ==
    LET c == [built |-> {}, steps |-> <<>>, fatal |-> OK, trace |-> <<>>] IN
    CASE call.op = "Library" -> LibraryBuild(ExplicitDefault(libs[call.id]), c)
      [] call.op = "multipleToolchainLibrary" ->
            MtlBuild(MultipleToolchains(ExplicitDefault(libs[call.id])), c)
      [] call.op = "Binary" -> BinaryBuild(ExplicitDefault(bin), c)
      [] call.op = "ObjectFile" -> ObjectFileBuild(ExplicitDefault(ObjectUnit), c)
      [] call.op = "BlobObject" -> BlobObjectBuild(ExplicitDefault(BlobUnit), c)

\* C7 as stated: a unit of any kind built with its toolchain unspecified
\* emits the steps the unit emits with the default toolchain named
\* explicitly, and does not fail where that build succeeds.
C7_AsStated ==
    (Len(calls) = 1 /\ DefaultRegistered /\ RunExplicit(calls[1]).fatal = OK) =>
        /\ fatal = OK
        /\ steps = RunExplicit(calls[1]).steps

\* C8 as stated: a build invocation that aborts the process has emitted no
\* step.
C8_AsStated == [][(fatal = OK /\ fatal' # OK) => steps' = steps]_vars

\* C9 as stated: building a Library, or a Binary, whose output path is
\* missing aborts with the error "Out field is required".
C9_AsStated ==
    /\ (Len(calls) = 1 /\ calls[1].op = "Library" /\ libs[calls[1].id].Out = NoPath)
         => fatal = ErrOutRequired
    /\ (Len(calls) = 1 /\ calls[1].op = "Binary" /\ bin.Out = NoPath)
         => fatal = ErrOutRequired

\* C10 as stated: after Library and Binary builds that did not abort, no two
\* emitted steps have the same output path.
C10_AsStated ==
    (fatal = OK /\ \A i \in 1..Len(calls) : calls[i].op \in {"Library", "Binary"}) =>
        NoDuplicates(OutsOf(steps))

(***************************************************************************)
(* The variants of the multi-toolchain library (the wrapper of c).         *)
(***************************************************************************)
Wrapper == MultipleToolchains(libs["c"])
\* The label of the build of a namespaced variant: the base path under the
\* name of a toolchain.
IsVariantLabel(l) ==
    \E tc \in Toolchains : l = Label("lib", WithPrefix(Wrapper.baseOut, tc.ToolchainName))
\* The units of the description, the variants of the wrapper among them,
\* with the seeds of their closures.
LibraryUnits ==
    {libs[id] : id \in LibIds}
    \cup {[Wrapper.lib EXCEPT !.Out = IF tc.ToolchainName # flag
                                      THEN WithPrefix(Wrapper.baseOut, tc.ToolchainName)
                                      ELSE @,
                              !.Toolchain = tc] : tc \in Toolchains}
ClosureOf(kind, U) ==
    LET T == Effective(U.Toolchain)
    IN  collectDepsWithToolchain(T, IF kind = "bin" THEN U.Deps \o T.Deps
                                    ELSE T.Deps \o <<ValRef(U)>>).flatDeps
\* Unit U, built under label l, has toolchain T and its closure holds a
\* library at path p.
ResolvesUnder(l, name, p) ==
    \E U \in (IF l.kind = "bin" THEN {bin} ELSE LibraryUnits) :
        /\ U.Out # NoPath
        /\ l = Label(l.kind, U.Out)
        /\ Effective(U.Toolchain).ToolchainName = name
        /\ \E i \in 1..Len(ClosureOf(l.kind, U)) : ClosureOf(l.kind, U)[i].Out = p
\* Steps of a namespaced variant are emitted inside the build of a unit of
\* that toolchain whose closure holds the variant.
VariantsOnDemand ==
    \A k \in 1..Len(steps) : \A i \in 1..Len(steps[k].scope) :
        LET l == steps[k].scope[i] IN
        IsVariantLabel(l) => /\ i > 1
               /\ l.path[1] # flag
               /\ ResolvesUnder(steps[k].scope[i - 1], l.path[1],
                                WithPrefix(Wrapper.baseOut, l.path[1]))
\* The wrapper's own entry point builds the variant at the bare base path
\* with the default toolchain, and every step it emits is emitted inside it.
WrapperBuildsDefault ==
    (calls' = Append(calls, [op |-> "multipleToolchainLibrary", id |-> "c"])
        /\ fatal' = OK) =>
        /\ Absolute(Wrapper.baseOut) \in built'
        /\ \E k \in 1..Len(steps') :
              steps'[k].Out = Wrapper.baseOut /\ Owner(steps'[k]).path = Relative(Wrapper.baseOut)
        /\ \A k \in (Len(steps) + 1)..Len(steps') :
              /\ steps'[k].scope[1] = Label("lib", Wrapper.baseOut)
              /\ Len(steps'[k].scope) = 1 => steps'[k].Descr.toolchain = flag

\* No step emitted while the wrapper's entry point runs belongs to a
\* namespaced variant.
WrapperBuildsOnlyDefault ==
    calls' = Append(calls, [op |-> "multipleToolchainLibrary", id |-> "c"]) =>
        \A k \in (Len(steps) + 1)..Len(steps') : \A i \in 1..Len(steps'[k].scope) :
            ~IsVariantLabel(steps'[k].scope[i])

\* C11 as stated: the wrapper's entry point builds the default variant and
\* only that variant; a namespaced variant is emitted only when a unit whose
\* closure is computed under that toolchain resolves the wrapper, and never
\* as an effect of building the wrapper.
C11_AsStated ==
    []VariantsOnDemand /\ [][WrapperBuildsDefault /\ WrapperBuildsOnlyDefault]_vars

\* C11, amended: the wrapper's own build entry point builds the variant at the bare
\* base path, under the default toolchain, and nothing outside that build;
\* the steps of a variant namespaced by a toolchain name are emitted only
\* inside the build of a unit whose closure, computed under a toolchain of
\* that name, holds the variant, and the name is never that of the default.
\* Such a unit can be a dependency of the wrapped library, so a namespaced
\* variant can be emitted while the wrapper's entry point runs.
C11_LazyVariants == []VariantsOnDemand /\ [][WrapperBuildsDefault]_vars

\* The wrapper was built first (c.a), then a binary pinned to arm, whose
\* closure holds the wrapper as arm's standard dependency (arm/c.a).
C11_Witness ==
    /\ fatal = OK
    /\ flag = "native-gcc"
    /\ calls = <<[op |-> "multipleToolchainLibrary", id |-> "c"],
                 [op |-> "Binary", id |-> "app"]>>
    /\ \E k \in 1..Len(steps) : steps[k].Out = OutPath("c", "a")
    /\ \E k \in 1..Len(steps) : steps[k].Out = WithPrefix(OutPath("c", "a"), "arm")

(***************************************************************************)
(* The link script of a Binary.                                            *)
(***************************************************************************)
\* Every link script of the description and of the toolchains.
LinkScripts == ({bin.Script} \cup {tc.LinkerScript : tc \in Toolchains}) \ {NoPath}
\* The script the link is to use: the explicit one, else the toolchain's.
ScriptInUse(b) ==
    IF b.Script # NoPath THEN b.Script ELSE Effective(b.Toolchain).LinkerScript

\* C12: in the link step of every Binary build the command names, after its
\* one -T, the binary's explicit script when there is one, otherwise the
\* toolchain's default script when it has one, and has no -T and no script
\* otherwise; the step's inputs are the objects, the closure libraries and
\* then exactly that script, and no other script.
C12_LinkScript ==
    \A k \in 1..Len(steps) : IsLinkOf(steps[k], bin) =>
        LET cmd == steps[k].Cmd
            ins == steps[k].Ins
            use == ScriptInUse(bin)
            closure == BinaryClosure(bin)
            dashT == Positions(cmd, Lit("-T"))
            scriptWords == {i \in 1..Len(cmd) : \E p \in LinkScripts : cmd[i] = Quoted(p)}
        IN  /\ IF use = NoPath
               THEN dashT = {} /\ scriptWords = {}
               ELSE /\ Cardinality(dashT) = 1
                    /\ scriptWords = {i + 1 : i \in dashT}
                    /\ \A i \in dashT : cmd[i + 1] = Quoted(use)
            /\ SelectSeq(ins, LAMBDA p : p \in LinkScripts)
                 = IF use = NoPath THEN <<>> ELSE <<use>>
            /\ ins = <<WithExt(WithPrefix(bin.Srcs[1], Effective(bin.Toolchain).ToolchainName), "o")>>
                     \o [i \in 1..Len(closure) |-> closure[i].Out]
                     \o (IF use = NoPath THEN <<>> ELSE <<use>>)

\* A binary with an explicit script has been linked by a toolchain that has
\* a default script of its own.
C12_Witness ==
    /\ fatal = OK
    /\ \E k \in 1..Len(steps) : IsLinkOf(steps[k], bin)
    /\ bin.Script # NoPath
    /\ Effective(bin.Toolchain).LinkerScript # NoPath
    /\ bin.Script # Effective(bin.Toolchain).LinkerScript

(***************************************************************************)
(* Output paths of object files and blob objects.                          *)
(***************************************************************************)
CompileSteps(verb) == SelectSeq(steps, LAMBDA st : st.Descr.verb = verb)
\* The source path with its extension rewritten and the name put before it.
Namespaced(src, name, ext) ==
    [root |-> "out", pre |-> <<name>> \o src.pre, name |-> src.name, ext |-> ext]
\* The step was emitted for toolchain tc: its command runs tc's tool.
CompiledBy(st, tc) ==
    /\ st.Descr.toolchain = tc.ToolchainName
    /\ st.Cmd[1] = IF st.Descr.verb = "CC" THEN Tool(tc.Cxx) ELSE Tool(tc.Ld)
NamespacedSteps(verb, ext) ==
    LET ss == CompileSteps(verb) IN
    /\ \A i \in 1..Len(ss) :
         \E tc \in Toolchains :
            /\ CompiledBy(ss[i], tc)
            /\ ss[i].Out = Namespaced(ss[i].In, tc.ToolchainName, ext)
    /\ \A i, j \in 1..Len(ss) :
         (ss[i].In = ss[j].In /\ ss[i].Descr.toolchain # ss[j].Descr.toolchain)
            => ss[i].Out # ss[j].Out

\* C13: the output path of every object compile is the source path with the
\* extension rewritten to "o" and prefixed by the name of the toolchain that
\* compiles it, so one source compiled under two toolchains of different
\* names has two distinct object paths; the same holds for blob objects with
\* the extension "blob.o".
C13_Namespacing == NamespacedSteps("CC", "o") /\ NamespacedSteps("BLOB", "blob.o")

\* One source has been compiled, and one blob converted, under two toolchains.
C13_Witness ==
    /\ fatal = OK
    /\ \E i, j \in 1..Len(steps) :
          /\ steps[i].Descr.verb = "BLOB" /\ steps[j].Descr.verb = "BLOB"
          /\ steps[i].In = steps[j].In
          /\ steps[i].Descr.toolchain = "arm" /\ steps[j].Descr.toolchain = "native-gcc"
          /\ steps[i].Out = WithExt(WithPrefix(steps[i].In, "arm"), "blob.o")
    /\ \E i, j \in 1..Len(steps) :
          /\ steps[i].Descr.verb = "CC" /\ steps[j].Descr.verb = "CC"
          /\ steps[i].In = steps[j].In
          /\ steps[i].Descr.toolchain = "arm" /\ steps[j].Descr.toolchain = "native-gcc"
          /\ steps[i].Out = WithExt(WithPrefix(steps[i].In, "arm"), "o")

(***************************************************************************)
(* The static-archive command.                                             *)
(***************************************************************************)
\* The words that join two shell commands.
Sequencing == {Lit(";"), Lit("&&"), Lit("||"), Lit("|")}

\* C14: the command of every static-archive step is the deletion of the
\* archive at the output path (errors discarded), then ";", so that what
\* follows runs whether or not the deletion succeeded, then one archiver
\* invocation, of the toolchain's archiver with "rcs", that names the same
\* output path and then exactly the objects of the step, in order.
C14_ArchiveSafety ==
    \A k \in 1..Len(steps) : steps[k].Descr.verb = "AR" =>
        LET cmd == steps[k].Cmd
            out == steps[k].Out
            objs == steps[k].Ins
            seps == {i \in 1..Len(cmd) : cmd[i] \in Sequencing}
        IN  /\ objs # <<>>
            /\ seps = {4}
            /\ cmd[4] = Lit(";")
            /\ SubSeq(cmd, 1, 3) = <<Lit("rm"), Quoted(out), Lit("2>/dev/null")>>
            /\ \E tc \in Toolchains :
                  /\ tc.ToolchainName = steps[k].Descr.toolchain
                  /\ SubSeq(cmd, 5, 7) = <<Tool(tc.Ar), Lit("rcs"), Quoted(out)>>
            /\ SubSeq(cmd, 8, Len(cmd)) = [i \in 1..Len(objs) |-> Quoted(objs[i])]
            /\ Len(cmd) = 7 + Len(objs)

\* A static library of two objects (a compiled source and a blob) has been
\* archived.
C14_Witness ==
    /\ fatal = OK
    /\ \E k \in 1..Len(steps) :
          /\ steps[k].Descr.verb = "AR"
          /\ Len(steps[k].Ins) = 2
          /\ steps[k].Ins[1] # steps[k].Ins[2]

(***************************************************************************)
(* Order of the archive and link steps.                                    *)
(***************************************************************************)
\* The positions of the archive or link steps at an output path.
FinalSteps(out) ==
    {k \in 1..Len(steps) : steps[k].Out = out /\ steps[k].Descr.verb \in {"AR", "LD"}}
Before(D, U) ==
    \E kD \in FinalSteps(D.Out) : \A kU \in FinalSteps(U.Out) : kD < kU
\* The units whose final step has been emitted, with their kind.
UnitsDone ==
    {u \in ({"lib"} \X LibraryUnits) \cup {<<"bin", bin>>} :
        u[2].Out # NoPath /\ FinalSteps(u[2].Out) # {}}

\* C15 as stated: for every unit U whose final step was emitted and every
\* library D, other than U, of U's closure, the final step of D was emitted
\* before that of U, whatever the dependency graph.
C15_AsStated ==
    \A u \in UnitsDone :
        LET closure == ClosureOf(u[1], u[2]) IN
        \A i \in 1..Len(closure) :
            closure[i].Out # u[2].Out => Before(closure[i], u[2])

\* Distinct libraries of the description have distinct output paths.
DistinctOuts == \A x, y \in LibIds : x # y => libs[x].Out # libs[y].Out
\* The libraries a library refers to, a toolchain's standard dependencies
\* counted as dependencies of every library.
DepIds(x) ==
    {d.id : d \in Range(libs[x].Deps)}
    \cup {d.id : d \in UNION {Range(tc.Deps) : tc \in Toolchains}}
RECURSIVE Descendants(_)
Descendants(S) ==
    LET more == S \cup UNION {DepIds(x) : x \in S}
    IN  IF more = S THEN S ELSE Descendants(more)
\* No two distinct libraries depend on each other, directly or transitively.
Acyclic ==
    \A x, y \in LibIds :
        x # y => ~(y \in Descendants(DepIds(x)) /\ x \in Descendants(DepIds(y)))

\* C15, amended: the same, for the dependency graphs in which no two distinct
\* libraries depend on each other and distinct libraries have distinct
\* output paths.
C15_DependenciesFirst ==
    (Acyclic /\ DistinctOuts) =>
    \A u \in UnitsDone :
        LET closure == ClosureOf(u[1], u[2]) IN
        \A i \in 1..Len(closure) :
            closure[i].Out # u[2].Out => Before(closure[i], u[2])

\* A binary was linked against a, b and c, where a depends on b and c and b
\* depends on c: the archives were emitted in the order c, b, a.
C15_Witness ==
    /\ fatal = OK
    /\ calls = <<[op |-> "Binary", id |-> "app"]>>
    /\ <<"lib", libs["a"]>> \in UnitsDone
    /\ Len(ClosureOf("lib", libs["a"])) = 3
    /\ Len(ClosureOf("lib", libs["b"])) = 2
    /\ Before(libs["c"], libs["b"])
    /\ Before(libs["b"], libs["a"])
    /\ Before(libs["a"], bin)
    /\ Acyclic /\ DistinctOuts

(***************************************************************************)
(* Order of a closure.                                                     *)
(***************************************************************************)
\* Depth-first first-discovery order, computed with a list of the references
\* still to look at: the references of a library just discovered are looked
\* at before the references that were waiting.
RECURSIVE Walk(_, _, _, _)
Walk(toolchain, todo, seen, acc) ==
    IF todo = <<>> THEN acc
    ELSE LET lib == CcLibrary(Head(todo), toolchain).lib IN
         IF Absolute(lib.Out) \in seen THEN Walk(toolchain, Tail(todo), seen, acc)
         ELSE Walk(toolchain, lib.Deps \o Tail(todo), seen \cup {Absolute(lib.Out)},
                   Append(acc, lib))
PreOrder(toolchain, seeds) == Walk(toolchain, seeds, {}, <<>>)

\* The include directories a compile command searches, in order.
IncludeDirs(cmd) ==
    LET ws == SelectSeq(cmd, LAMBDA w : w.t = "-I") IN [i \in 1..Len(ws) |-> ws[i].v]
DirsOf(ls) == Concat([i \in 1..Len(ls) |-> [j \in 1..Len(ls[i].Includes) |->
                                               Absolute(ls[i].Includes[j])]])
\* The library units a step emitted under label l by toolchain name n can
\* belong to.
UnitsAt(l, n) ==
    {U \in LibraryUnits : U.Out # NoPath /\ l = Label("lib", U.Out)
                          /\ Effective(U.Toolchain).ToolchainName = n}
LibsOfLink(st) == SelectSeq(st.Ins, LAMBDA p : p.ext = "a")

\* The closure of a link step and the order it is to have.
LinkInOrder(st) ==
    IsLinkOf(st, bin) =>
        LET T == Effective(bin.Toolchain)
            order == PreOrder(T, bin.Deps \o T.Deps)
        IN  /\ LibsOfLink(st) = [i \in 1..Len(order) |-> order[i].Out]
            /\ order[1] = CcLibrary(bin.Deps[1], T).lib
IsLibraryCompile(st) == st.Descr.verb = "CC" /\ Owner(st).kind = "lib"

\* C16 as stated: the closure a Binary is linked against is the depth-first
\* first-discovery order of its own dependencies followed by its toolchain's
\* standard dependencies; the closure a Library compiles against is that
\* order of the standard dependencies followed by the library itself, and
\* the library is an entry of it, after every library of the standard
\* dependencies' subtrees.
C16_AsStated ==
    \A k \in 1..Len(steps) :
        LET st == steps[k] IN
        /\ LinkInOrder(st)
        /\ IsLibraryCompile(st) =>
              \E U \in UnitsAt(Owner(st), st.Descr.toolchain) :
                  LET T == Effective(U.Toolchain)
                      order == PreOrder(T, T.Deps \o <<ValRef(U)>>)
                      std == PreOrder(T, T.Deps)
                  IN  /\ Tail(IncludeDirs(st.Cmd)) = DirsOf(order)
                      /\ \E i \in 1..Len(order) :
                            /\ order[i].Out = U.Out
                            /\ \A j \in 1..Len(std) :
                                  std[j].Out # U.Out
                                     => \E h \in 1..(i - 1) : order[h] = std[j]

\* C16, amended: the same, except that a library reached from the standard
\* dependencies of its own toolchain is the entry discovered there, inside
\* their subtrees; any other library is the entry right after them.
C16_DiscoveryOrder ==
    \A k \in 1..Len(steps) :
        LET st == steps[k] IN
        /\ LinkInOrder(st)
        /\ IsLibraryCompile(st) =>
              \E U \in UnitsAt(Owner(st), st.Descr.toolchain) :
                  LET T == Effective(U.Toolchain)
                      order == PreOrder(T, T.Deps \o <<ValRef(U)>>)
                      std == PreOrder(T, T.Deps)
                  IN  /\ Tail(IncludeDirs(st.Cmd)) = DirsOf(order)
                      /\ SubSeq(order, 1, Len(std)) = std
                      /\ IF \E j \in 1..Len(std) : std[j].Out = U.Out
                         THEN order = std
                         ELSE order[Len(std) + 1] = U

\* A binary pinned to arm was linked against a, which depends on b and c, b
\* depending on c: the closure is a, b, c and then arm's standard dependency.
C16_Witness ==
    /\ fatal = OK
    /\ bin.Toolchain = Arm
    /\ Len(libs["a"].Deps) = 2
    /\ Len(libs["b"].Deps) = 1
    /\ \E k \in 1..Len(steps) :
          /\ IsLinkOf(steps[k], bin)
          /\ LibsOfLink(steps[k])
               = <<OutPath("a", "a"), OutPath("b", "a"), OutPath("c", "a"),
                   WithPrefix(OutPath("c", "a"), "arm")>>

(***************************************************************************)
(* The include-search list of a unit's own compiles.                       *)
(***************************************************************************)
\* The units a compile step emitted under label l by toolchain name n can
\* belong to, with their kind.
CompilingUnits(l, n) ==
    IF l.kind = "bin" THEN {<<"bin", bin>>}
    ELSE {<<"lib", U>> : U \in UnitsAt(l, n)}
SeedsOf(kind, U) ==
    LET T == Effective(U.Toolchain)
    IN  IF kind = "bin" THEN U.Deps \o T.Deps ELSE T.Deps \o <<ValRef(U)>>

\* C17: the include-search list of every object compile of a Library or a
\* Binary is the source root and then the include directories of the
\* libraries of the unit's closure, in closure order; a Library's own
\* directories are in the list, and, when distinct libraries have distinct
\* output paths, so are those of every library reached through any chain of
\* references.
C17_IncludeList ==
    \A k \in 1..Len(steps) :
        LET st == steps[k] IN
        (st.Descr.verb = "CC" /\ Owner(st).kind \in {"lib", "bin"}) =>
            \E u \in CompilingUnits(Owner(st), st.Descr.toolchain) :
                LET dirs == IncludeDirs(st.Cmd)
                    T == Effective(u[2].Toolchain)
                IN  /\ dirs = <<Absolute(SourcePath("", ""))>>
                                \o DirsOf(ClosureOf(u[1], u[2]))
                    /\ u[1] = "lib" => Range(DirsOf(<<u[2]>>)) \subseteq Range(dirs)
                    /\ DistinctOuts =>
                         \A L \in Reachable(T, SeedsOf(u[1], u[2])) :
                             Range(DirsOf(<<L>>)) \subseteq Range(dirs)

\* The binary depends on a and b only, c is reached through them, and the
\* binary's own source was compiled with the directories of a, b and c.
C17_Witness ==
    /\ fatal = OK
    /\ LibRef("c") \in Range(libs["b"].Deps)
    /\ \E k \in 1..Len(steps) :
          /\ steps[k].Descr.verb = "CC"
          /\ Owner(steps[k]) = Label("bin", bin.Out)
          /\ IncludeDirs(steps[k].Cmd)
               = <<Absolute(SourcePath("", "")), Absolute(SourcePath("a", "include")),
                   Absolute(SourcePath("b", "include")),
                   Absolute(SourcePath("c", "include"))>>

(***************************************************************************)
(* The toolchain a closure is resolved under.                              *)
(***************************************************************************)
\* Toolchain T admits a library pinned to X: same name, or X in T's list.
Admits(T, X) == X.ToolchainName = T.ToolchainName
                \/ X.ToolchainName \in Range(T.CompatibleWith)
\* The references some chain of references reaches from the seeds.
RECURSIVE RefReach(_)
RefReach(S) ==
    LET more == S \cup UNION {Range(libs[r.id].Deps) : r \in S}
    IN  IF more = S THEN S ELSE RefReach(more)

\* C18: every library of a closure returned under T is pinned to T, or to a
\* toolchain T admits, whatever library it was reached through; and when
\* some chain of references from the seeds reaches a plain library pinned to
\* a toolchain T does not admit, the collector is fatal, also when every
\* library on the chain is admitted by the one before it (distinct libraries
\* having distinct output paths).
C18_ResolvedUnderRoot ==
    (Collected /\ DefaultRegistered) =>
        /\ ret.res.err = OK =>
              \A i \in 1..Len(ret.res.flatDeps) :
                  Admits(ret.toolchain, Effective(ret.res.flatDeps[i].Toolchain))
        /\ (DistinctOuts
              /\ \E r \in RefReach(Range(ret.deps)) :
                    r.kind = "lib"
                    /\ ~Admits(ret.toolchain, Effective(libs[r.id].Toolchain)))
              => ret.res.err # OK

\* Test admits arm and arm admits native-gcc, but Test does not admit
\* native-gcc: the closure under Test of b, pinned to arm, which depends on c,
\* built with the default native-gcc, was fatal.
C18_Witness ==
    /\ Collected
    /\ DefaultRegistered /\ flag = "native-gcc"
    /\ ret.toolchain = Test
    /\ ret.deps = <<LibRef("b")>>
    /\ libs["b"].Toolchain = Arm
    /\ libs["b"].Deps = <<LibRef("c")>>
    /\ libs["c"].Toolchain = NilToolchain
    /\ Admits(Test, Arm) /\ Admits(Arm, NativeGcc) /\ ~Admits(Test, NativeGcc)
    /\ ret.res.err = ErrUnsupported

(***************************************************************************)
(* A third specification lets the engine run several Library build         *)
(* invocations concurrently over one context.  Each invocation is a stack  *)
(* of Library.build frames, kept in ret.stack; a step of an invocation is  *)
(* the guard of its innermost frame, the call of the next library of the   *)
(* frame's closure, or the emission of the frame's steps.  ret.atomic says *)
(* whether the engine answers the built query by one atomic                *)
(* check-and-register, or by a check and a later registration that other   *)
(* invocations may come between.  ret.events and ret.raced are history:    *)
(* who emitted the steps of which path, and for which paths two            *)
(* invocations both passed the check before either had registered.         *)
(***************************************************************************)
Frame(lib) == [kind |-> "lib", lib |-> lib, pc |-> "guard", flat |-> <<>>, i |-> 1]

RaceRet(atomic, limit) ==
    [op |-> "race", atomic |-> atomic, limit |-> limit, stack |-> <<>>, events |-> {},
     raced |-> {}]

InitRace ==
    /\ toolchains = [n \in {Name(NativeGcc)} |-> NativeGcc]
    /\ flag = Name(NativeGcc)
    /\ \E shape \in SUBSET Edges : libs = [id \in LibIds |-> Describe(id, shape, {})]
    /\ bin = DescribeBinary({})
    /\ built = {}
    /\ steps = <<>>
    /\ fatal = OK
    /\ calls = <<>>
    /\ \E atomic \in BOOLEAN : ret = RaceRet(atomic, MaxCalls)

Top(t) == ret.stack[t][Len(ret.stack[t])]
At(t, pc) == fatal = OK /\ ret.stack[t] # <<>> /\ Top(t).pc = pc
SetTop(t, f) == [ret.stack EXCEPT ![t] = [@ EXCEPT ![Len(@)] = f]]
Pop(t) == [ret.stack EXCEPT ![t] = SubSeq(@, 1, Len(@) - 1)]
Push(t, f, g) == [ret.stack EXCEPT ![t] = SubSeq(@, 1, Len(@) - 1) \o <<f, g>>]
\* Another invocation has passed the check for the path and not yet registered.
Pending(t, path) ==
    \E u \in DOMAIN ret.stack :
        /\ u # t /\ ret.stack[u] # <<>>
        /\ Top(u).pc = "register" /\ Absolute(Top(u).lib.Out) = path

\* Invocations are numbered in the order of the libraries they build.
NotAfter(x, y) ==
    \E i, j \in 1..Len(Order) : i <= j /\ Order[i] = x /\ Order[j] = y

\* The engine starts an invocation: Library.Build of a library of the
\* description.
Start(id) ==
    /\ fatal = OK
    /\ Len(calls) < ret.limit
    /\ \A k \in 1..Len(calls) : NotAfter(calls[k].id, id)
    /\ calls' = Append(calls, [op |-> "Library", id |-> id])
    /\ IF libs[id].Out = NoPath
       THEN /\ fatal' = ErrNilDeref
            /\ ret' = [ret EXCEPT !.stack = Append(@, <<>>)]
       ELSE /\ ret' = [ret EXCEPT !.stack = Append(@, <<Frame(libs[id])>>)]
            /\ UNCHANGED fatal
    /\ UNCHANGED <<toolchains, flag, libs, bin, built, steps>>

\* The frame goes on after the guard: toolchain and closure.
Entered(t, f, tc, stack) ==
    IF tc.err # OK
    THEN /\ fatal' = tc.err
         /\ ret' = [ret EXCEPT !.stack = stack]
    ELSE LET cl == collectDepsWithToolchain(tc.tc, StdDeps(tc.tc) \o <<ValRef(f.lib)>>)
         IN  IF cl.err # OK
             THEN /\ fatal' = cl.err
                  /\ ret' = [ret EXCEPT !.stack = stack]
             ELSE /\ ret' = [ret EXCEPT !.stack =
                                SetTop(t, [f EXCEPT !.pc = "deps", !.flat = cl.flatDeps])]
                  /\ UNCHANGED fatal

\* Mutant: the guard does not return when the path is already built.
LibraryGuardNoReturn(t) ==
    /\ At(t, "guard")
    /\ IF Top(t).lib.Out = NoPath
       THEN /\ fatal' = ErrOutRequired
            /\ UNCHANGED <<built, ret>>
       ELSE IF ret.atomic
       THEN /\ built' = MarkBuilt(Context, Absolute(Top(t).lib.Out)).built
            /\ Entered(t, Top(t), toolchainOrDefault(Top(t).lib.Toolchain), ret.stack)
       ELSE /\ ret' = [ret EXCEPT
                         !.stack = SetTop(t, [Top(t) EXCEPT !.pc = "register"]),
                         !.raced = IF Pending(t, Absolute(Top(t).lib.Out))
                                   THEN @ \cup {Absolute(Top(t).lib.Out)} ELSE @]
            /\ UNCHANGED <<built, fatal>>
    /\ UNCHANGED <<toolchains, flag, libs, bin, steps, calls>>

\* Mutant: the check and the registration are two steps under every engine.
LibraryGuardSplit(t) ==
    /\ At(t, "guard")
    /\ IF Top(t).lib.Out = NoPath
       THEN /\ fatal' = ErrOutRequired
            /\ UNCHANGED <<built, ret>>
       ELSE IF AlreadyBuilt(Context, Absolute(Top(t).lib.Out))
       THEN /\ ret' = [ret EXCEPT !.stack = Pop(t)]
            /\ UNCHANGED <<built, fatal>>
       ELSE /\ ret' = [ret EXCEPT
                         !.stack = SetTop(t, [Top(t) EXCEPT !.pc = "register"]),
                         !.raced = IF Pending(t, Absolute(Top(t).lib.Out))
                                   THEN @ \cup {Absolute(Top(t).lib.Out)} ELSE @]
            /\ UNCHANGED <<built, fatal>>
    /\ UNCHANGED <<toolchains, flag, libs, bin, steps, calls>>

\* Library.build, up to the guard.  An atomic query registers the path with
\* the check; otherwise the registration is a later step of the engine.
LibraryGuard(t) ==
    /\ At(t, "guard")
    /\ IF Top(t).lib.Out = NoPath
       THEN /\ fatal' = ErrOutRequired
            /\ UNCHANGED <<built, ret>>
       ELSE IF AlreadyBuilt(Context, Absolute(Top(t).lib.Out))
       THEN /\ ret' = [ret EXCEPT !.stack = Pop(t)]
            /\ UNCHANGED <<built, fatal>>
       ELSE IF ret.atomic
       THEN /\ built' = MarkBuilt(Context, Absolute(Top(t).lib.Out)).built
            /\ Entered(t, Top(t), toolchainOrDefault(Top(t).lib.Toolchain), ret.stack)
       ELSE /\ ret' = [ret EXCEPT
                         !.stack = SetTop(t, [Top(t) EXCEPT !.pc = "register"]),
                         !.raced = IF Pending(t, Absolute(Top(t).lib.Out))
                                   THEN @ \cup {Absolute(Top(t).lib.Out)} ELSE @]
            /\ UNCHANGED <<built, fatal>>
    /\ UNCHANGED <<toolchains, flag, libs, bin, steps, calls>>

\* The registration of a query that is not atomic.
Register(t) ==
    /\ At(t, "register")
    /\ built' = MarkBuilt(Context, Absolute(Top(t).lib.Out)).built
    /\ Entered(t, Top(t), toolchainOrDefault(Top(t).lib.Toolchain), ret.stack)
    /\ UNCHANGED <<toolchains, flag, libs, bin, steps, calls>>

\* for _, d := range deps { d.Build(ctx) }: the call of the next library.
LibraryDep(t) ==
    /\ At(t, "deps")
    /\ Top(t).i <= Len(Top(t).flat)
    /\ IF Top(t).flat[Top(t).i].Out = NoPath
       THEN /\ fatal' = ErrNilDeref
            /\ UNCHANGED ret
       ELSE /\ ret' = [ret EXCEPT !.stack = Push(t, [Top(t) EXCEPT !.i = @ + 1],
                                                 Frame(Top(t).flat[Top(t).i]))]
            /\ UNCHANGED fatal
    /\ UNCHANGED <<toolchains, flag, libs, bin, built, steps, calls>>

\* The context of the rest of Library.build, once the builds of the closure
\* have returned: what is left is the body of Library.build with every call
\* of the loop returning at its guard.
Returned(t) ==
    [built |-> {Absolute(Top(t).flat[k].Out) : k \in 1..Len(Top(t).flat)}
                   \ {Absolute(Top(t).lib.Out)},
     steps |-> steps, fatal |-> OK,
     trace |-> [k \in 1..Len(ret.stack[t]) |->
                  Label(ret.stack[t][k].kind, ret.stack[t][k].lib.Out)]]

Emitted(t, c) ==
    /\ steps' = c.steps
    /\ fatal' = c.fatal
    /\ ret' = [ret EXCEPT !.stack = IF c.fatal = OK THEN Pop(t) ELSE @,
                          !.events = @ \cup {<<t, Absolute(Top(t).lib.Out)>>}]

\* Library.build after the loop: compile, blobs, archive.
LibraryEmit(t) ==
    /\ At(t, "deps")
    /\ Top(t).kind = "lib"
    /\ Top(t).i > Len(Top(t).flat)
    /\ Emitted(t, Library_build(Top(t).lib, Returned(t)))
    /\ UNCHANGED <<toolchains, flag, libs, bin, built, calls>>

NextRace ==
    \/ \E id \in LibIds : Start(id)
    \/ \E t \in DOMAIN ret.stack : LibraryGuard(t)
    \/ \E t \in DOMAIN ret.stack : Register(t)
    \/ \E t \in DOMAIN ret.stack : LibraryDep(t)
    \/ \E t \in DOMAIN ret.stack : LibraryEmit(t)

SpecRace == InitRace /\ [][NextRace]_vars

(***************************************************************************)
(* One invocation alone, of a Library or of the Binary, step by step, over  *)
(* descriptions with a library that lists itself and with libraries that   *)
(* depend on each other, with and without the arm toolchain registered.    *)
(***************************************************************************)
\* The engine starts an invocation of Binary.Build: Binary.Build and
\* Binary.build up to the closure.
BinaryEntered(tc, stack) ==
    IF tc.err # OK
    THEN /\ fatal' = tc.err
         /\ ret' = [ret EXCEPT !.stack = stack]
    ELSE LET cl == collectDepsWithToolchain(tc.tc, bin.Deps \o StdDeps(tc.tc))
         IN  IF cl.err # OK
             THEN /\ fatal' = cl.err
                  /\ ret' = [ret EXCEPT !.stack = stack]
             ELSE /\ ret' = [ret EXCEPT !.stack =
                                Append(@, <<[kind |-> "bin", lib |-> bin, pc |-> "deps",
                                             flat |-> cl.flatDeps, i |-> 1]>>)]
                  /\ UNCHANGED fatal

StartBinary ==
    /\ fatal = OK
    /\ Len(calls) < ret.limit
    /\ calls' = Append(calls, [op |-> "Binary", id |-> "app"])
    /\ IF bin.Out = NoPath
       THEN /\ fatal' = ErrOutRequired
            /\ ret' = [ret EXCEPT !.stack = Append(@, <<>>)]
       ELSE BinaryEntered(toolchainOrDefault(bin.Toolchain), Append(ret.stack, <<>>))
    /\ UNCHANGED <<toolchains, flag, libs, bin, built, steps>>

\* Binary.build after the loop: compile and link.
BinaryEmit(t) ==
    /\ At(t, "deps")
    /\ Top(t).kind = "bin"
    /\ Top(t).i > Len(Top(t).flat)
    /\ Emitted(t, Binary_build(Top(t).lib, Returned(t)))
    /\ UNCHANGED <<toolchains, flag, libs, bin, built, calls>>

NextSeq ==
    \/ NextRace
    \/ StartBinary
    \/ \E t \in DOMAIN ret.stack : BinaryEmit(t)

InitSeq ==
    /\ toolchains \in {[n \in {Name(NativeGcc)} |-> NativeGcc],
                       [n \in {Name(NativeGcc), Name(Arm)} |->
                           IF n = Name(Arm) THEN Arm ELSE NativeGcc]}
    /\ flag \in FlagValues
    /\ \E shape \in SUBSET Edges, q \in {{}, {"c-dep-a"}, {"c-dep-c"}, {"bin-arm"}} :
         /\ libs = [id \in LibIds |-> Describe(id, shape, q)]
         /\ bin = DescribeBinary(q)
    /\ built = {}
    /\ steps = <<>>
    /\ fatal = OK
    /\ calls = <<>>
    /\ \E atomic \in BOOLEAN : ret = RaceRet(atomic, 1)

SpecSeq == InitSeq /\ [][NextSeq]_vars

(***************************************************************************)
(* Concurrent first builds of one output path.                             *)
(***************************************************************************)
LibPaths == {Absolute(libs[id].Out) : id \in LibIds}
Emitters(p) == {e[1] : e \in {x \in ret.events : x[2] = p}}
FinalStepsAt(p) == {i \in 1..Len(steps) : Absolute(steps[i].Out) = p}
AllReturned ==
    /\ calls # <<>>
    /\ fatal = OK
    /\ \A t \in DOMAIN ret.stack : ret.stack[t] = <<>>

\* C19: with an atomic check-and-register no two invocations pass the guard
\* of one path; as long as no two invocations have both passed the check of
\* a path before either registered it, at most one invocation emits the
\* steps of that path, its final step is emitted at most once, and when all
\* invocations have returned exactly one of them has emitted the steps of
\* each path built; when two invocations did both pass the check, each of
\* them has emitted the steps of the path by the time all have returned.
C19_BuiltGuardRace ==
    /\ ret.atomic => ret.raced = {}
    /\ \A p \in LibPaths \ ret.raced :
          /\ Cardinality(Emitters(p)) <= 1
          /\ Cardinality(FinalStepsAt(p)) <= 1
          /\ (AllReturned /\ p \in built) =>
                 Cardinality(Emitters(p)) = 1 /\ Cardinality(FinalStepsAt(p)) = 1
    /\ \A p \in ret.raced :
          AllReturned => Cardinality(Emitters(p)) >= 2 /\ Cardinality(FinalStepsAt(p)) >= 2

\* Two invocations of Library a, where a depends on b, have returned under a
\* query that is not atomic: both passed the check of a before either
\* registered it and both emitted a's steps, while the guard of b was passed
\* by one of them only and b's steps were emitted once.
C19_Witness ==
    /\ ~ret.atomic
    /\ AllReturned
    /\ calls = <<[op |-> "Library", id |-> "a"], [op |-> "Library", id |-> "a"]>>
    /\ LibRef("b") \in Range(libs["a"].Deps)
    /\ Absolute(libs["a"].Out) \in ret.raced
    /\ Emitters(Absolute(libs["a"].Out)) = {1, 2}
    /\ Cardinality(FinalStepsAt(Absolute(libs["a"].Out))) = 2
    /\ Absolute(libs["b"].Out) \notin ret.raced
    /\ Cardinality(Emitters(Absolute(libs["b"].Out))) = 1
    /\ Cardinality(FinalStepsAt(Absolute(libs["b"].Out))) = 1

(***************************************************************************)
(* Termination.                                                            *)
(***************************************************************************)
FramePaths(f) == [k \in 1..Len(f.flat) |-> Absolute(f.flat[k].Out)]
\* The frames of an invocation that have passed the guard.
Entering(t) == {k \in 1..Len(ret.stack[t]) : ret.stack[t][k].pc # "guard"}
\* The output paths a process can register: each library, as it is and as
\* the variant of each toolchain.
PathsBound == Cardinality(LibIds) * (Cardinality(Toolchains) + 1)
\* What is left to do, in lexicographic order: invocations to start, the
\* process alive, paths not yet checked and not yet registered, and calls
\* and returns left to the frames.
FrameWork(f) == IF f.pc = "deps" THEN 2 * (Len(f.flat) + 1 - f.i) + 1 ELSE 1
RECURSIVE StackWork(_)
StackWork(st) == IF st = <<>> THEN 0 ELSE FrameWork(Head(st)) + StackWork(Tail(st))
RECURSIVE Waiting(_)
Waiting(st) ==
    IF st = <<>> THEN 0
    ELSE (IF Head(st).pc = "register" THEN 1 ELSE 0) + Waiting(Tail(st))
RECURSIVE AllWork(_)
AllWork(stacks) ==
    IF stacks = <<>> THEN 0 ELSE StackWork(Head(stacks)) + AllWork(Tail(stacks))
RECURSIVE AllWaiting(_)
AllWaiting(stacks) ==
    IF stacks = <<>> THEN 0 ELSE Waiting(Head(stacks)) + AllWaiting(Tail(stacks))
Variant(c, f, b, r) ==
    <<r.limit - Len(c),
      IF f = OK THEN 1 ELSE 0,
      2 * (PathsBound - Cardinality(b)) - AllWaiting(r.stack),
      AllWork(r.stack)>>
LexLess(v, w) ==
    \E k \in 1..Len(v) : v[k] < w[k] /\ \A j \in 1..(k - 1) : v[j] = w[j]
\* Every step leaves less to do.
Decreases == LexLess(Variant(calls', fatal', built', ret'), Variant(calls, fatal, built, ret))
WellFounded == \A k \in 1..4 : Variant(calls, fatal, built, ret)[k] \in Nat
\* One frame per path has passed the guard, every closure holds its own
\* library, and holds each path once.
OncePerPath ==
    \A t \in DOMAIN ret.stack :
        /\ \A j, k \in Entering(t) :
              j # k => Absolute(ret.stack[t][j].lib.Out) # Absolute(ret.stack[t][k].lib.Out)
        /\ \A k \in Entering(t) :
              ret.stack[t][k].pc = "deps" =>
                  /\ ret.stack[t][k].kind = "lib" =>
                        Absolute(ret.stack[t][k].lib.Out) \in Range(FramePaths(ret.stack[t][k]))
                  /\ \A i, j \in 1..Len(ret.stack[t][k].flat) :
                        i # j => FramePaths(ret.stack[t][k])[i] # FramePaths(ret.stack[t][k])[j]
\* A library called while a frame of its path is already past the guard
\* returns at its guard: the frame called is popped by its next step.
ReturnsAtOnce ==
    \A t \in DOMAIN ret.stack :
        (/\ At(t, "guard")
         /\ \E k \in Entering(t) :
               Absolute(ret.stack[t][k].lib.Out) = Absolute(Top(t).lib.Out)
         /\ LibraryGuard(t))
        => ret'.stack[t] = SubSeq(ret.stack[t], 1, Len(ret.stack[t]) - 1)

\* C20: a Library or Binary build ends, by returning or by a fatal error, for every
\* description, a library that lists itself and libraries that depend on
\* each other included: every step leaves less to do, in a well-founded
\* order; every closure holds each output path once, the library's own among
\* them; and the build of a library that is already being built returns at
\* its guard.
C20_Termination ==
    /\ [](WellFounded /\ OncePerPath)
    /\ [][Decreases /\ ReturnsAtOnce]_vars

\* Library c lists itself, its build has returned, and c's final step was
\* emitted once.
C20_Witness ==
    /\ ret.op = "race" /\ ret.limit = 1
    /\ AllReturned
    /\ calls = <<[op |-> "Library", id |-> "c"]>>
    /\ LibRef("c") \in Range(libs["c"].Deps)
    /\ Cardinality(FinalStepsAt(Absolute(libs["c"].Out))) = 1

====
